---- MODULE Spec2Model ----
(***************************************************************************)
(* Model of the zephyrus slash-command framework: the interaction          *)
(* dispatcher (Framework::process), the router (get_command / get_next),   *)
(* the execution pipeline (execute) and the waiter registry.               *)
(***************************************************************************)
EXTENDS Integers, Sequences, FiniteSets, TLC

(* ---------------------------------------------------------------- bounds *)
\* longest leaf-argument list carried by an interaction or a subcommand
MaxArgs == 2
\* number of waiters registered over one run
MaxWaiters == 3
\* number of concurrent calls of Framework::process
NumProcs == 2

(* ------------------------------------------------------- Option<T> values *)
None == <<>>
Some(x) == <<x>>
IsSome(o) == o # <<>>
Unwrap(o) == o[1]

\* a lookup that falls back to the name in lower case
MapGet_ignore_case(map, key) ==
    LET lower == IF key = "Ping" THEN "ping" ELSE key
    IN  IF key \in DOMAIN map THEN Some(map[key])
        ELSE IF lower \in DOMAIN map THEN Some(map[lower])
        ELSE None

\* HashMap::get
MapGet(map, key) == IF key \in DOMAIN map THEN Some(map[key]) ELSE None

(* ------------------------------------------------------ registry contents *)
\* command.rs: struct Command (path is the identity of the registered value)
\* Command::new with its name and arguments set: no check, no required
\* permission
Command(name, path, arguments) ==
    [name |-> name, path |-> path, arguments |-> arguments,
     checks |-> <<>>, required_permissions |-> None]

\* Command::checks / Command::required_permissions
checks(command, hooks) == [command EXCEPT !.checks = hooks]
required_permissions(command, permissions) ==
    [command EXCEPT !.required_permissions = Some(permissions)]

\* what each registered check answers when it is called
CheckAnswers == ("allow" :> TRUE) @@ ("deny" :> FALSE)

CommandArgument(name, autocomplete) ==
    [name |-> name, autocomplete |-> autocomplete]

\* builder.commands: the flat top-level commands
BuilderCommands ==
    ("ping" :> checks(Command("ping", "/ping", <<>>), <<"deny">>)) @@
    ("s" :> Command("s", "/s", <<CommandArgument("x", TRUE)>>))

\* builder.groups: "g" is a simple group, "h" holds subgroups
BuilderGroups ==
    ("g" :> [name |-> "g",
             kind |-> [variant |-> "Simple",
                       map |-> ("s" :> Command("s", "/g/s",
                                   <<CommandArgument("x", TRUE),
                                     CommandArgument("y", FALSE),
                                     CommandArgument("z", FALSE)>>)) @@
                               ("t" :> required_permissions(
                                           Command("t", "/g/t", <<>>),
                                           "ADMINISTRATOR"))]]) @@
    ("h" :> [name |-> "h",
             kind |-> [variant |-> "Group",
                       map |-> ("sg" :> [name |-> "sg",
                                   subcommands |->
                                     ("s" :> checks(Command("s", "/h/sg/s",
                                         <<CommandArgument("y", TRUE)>>),
                                         <<"allow", "deny">>))]) @@
                               ("s" :> [name |-> "s",
                                   subcommands |->
                                     ("t" :> Command("t", "/h/s/t",
                                                     <<>>))])]])

\* ParentType::as_simple / ParentType::as_group
as_simple(kind) == IF kind.variant = "Simple" THEN Some(kind.map) ELSE None
as_group(kind) == IF kind.variant = "Group" THEN Some(kind.map) ELSE None

(* ------------------------------------------------------------ the inputs *)
\* CommandDataOption { name, value }; kind is the variant of value,
\* options the list a SubCommand / SubCommandGroup variant carries.
\* tag is the declared type a Focused value carries.
Option(name, kind, value, tag, options) ==
    [name |-> name, kind |-> kind, value |-> value, tag |-> tag,
     options |-> options]

String(name, value) == Option(name, "String", value, "", <<>>)
Focused(name, input, tag) == Option(name, "Focused", input, tag, <<>>)
SubCommand(name, options) == Option(name, "SubCommand", "", "", options)
SubCommandGroup(name, options) ==
    Option(name, "SubCommandGroup", "", "", options)

LeafOptions ==
    { String("x", "hello"), String("y", "hi"), Focused("x", "he", "String"),
      Focused("y", "h", "Integer") }

RECURSIVE SeqsUpTo(_, _)
SeqsUpTo(S, n) ==
    IF n = 0 THEN { <<>> }
    ELSE LET shorter == SeqsUpTo(S, n - 1)
         IN  shorter \cup { Append(s, x) : s \in shorter, x \in S }

ArgLists == SeqsUpTo(LeafOptions, MaxArgs)

\* a SubCommand may carry leaves, or (malformed) another SubCommand
SubCommandOptions ==
    { SubCommand(n, l) :
        n \in {"s", "u"},
        l \in ArgLists \cup { << SubCommand("s", <<>>) >> } }

\* a SubCommandGroup may carry nothing, a SubCommand, a leaf, or (malformed)
\* another SubCommandGroup
SubCommandGroupOptions ==
    { SubCommandGroup(n, l) :
        n \in {"sg", "u"},
        l \in { <<>> }
              \cup { <<o>> : o \in SubCommandOptions }
              \cup { <<o>> : o \in LeafOptions }
              \cup { << SubCommandGroup("s", <<>>) >>,
                     << SubCommandGroup("s", << SubCommand("s", <<>>) >>) >> } }

OptionLists ==
    ArgLists
    \cup { <<o>> : o \in SubCommandOptions \cup SubCommandGroupOptions }
    \cup { <<o, String("y", "hi")>> :
             o \in { SubCommand("s", <<>>),
                     SubCommandGroup("sg", << SubCommand("s", <<>>) >>) } }

InteractionNames == {"ping", "Ping", "s", "g", "h"}

\* Interaction { kind, data }; data is None or the CommandData
Interaction(kind, data) == [kind |-> kind, data |-> data]
CommandData(name, options) == [name |-> name, options |-> options]

CommandInputs ==
    { Interaction(k, Some(CommandData(n, l))) :
        k \in {"ApplicationCommand", "ApplicationCommandAutocomplete"},
        n \in InteractionNames, l \in OptionLists }
    \cup { Interaction("ApplicationCommand", None),
           Interaction("ApplicationCommandAutocomplete", None) }

(* ------------------------------------------------------- 64-bit integers *)
\* A 64-bit word is four 16-bit limbs, the most significant first; a 128-bit
\* word is eight. Signed values are in two's complement.
Limb == 65536
Zero64 == <<0, 0, 0, 0>>

RECURSIVE Pow2(_)
Pow2(k) == IF k = 0 THEN 1 ELSE 2 * Pow2(k - 1)

\* the 128-bit word whose low k bits are set
Ones128(k) ==
    [j \in 1..8 |->
        LET low == 16 * (8 - j)
        IN  IF k >= low + 16 THEN Limb - 1
            ELSE IF k <= low THEN 0
            ELSE Pow2(k - low) - 1]

\* bitwise complement
Not(w) == [j \in 1..Len(w) |-> (Limb - 1) - w[j]]

\* `as` to a 64-bit type from a 128-bit word: the low 64 bits
Low64(w) == SubSeq(w, 5, 8)

\* a > b on u64
gt_u64(a, b) ==
    LET differ == { j \in 1..4 : a[j] # b[j] }
    IN  /\ differ # {}
        /\ LET j == CHOOSE i \in differ : \A k \in differ : i <= k
           IN  a[j] > b[j]

\* a > b on i64: the order of the words with the sign bit flipped
gt_i64(a, b) ==
    LET flip(w) == [w EXCEPT ![1] = (w[1] + Limb \div 2) % Limb]
    IN  gt_u64(flip(a), flip(b))

(* ------------------------------------------------------- argument parser *)
\* CommandOptionValue as Parse::parse sees it: the variant and what it carries
\* (text of a String, the 64-bit word of an Integer, Number or id, the flag
\* of a Boolean)
Value(kind, text, num, flag) ==
    [kind |-> kind, text |-> text, num |-> num, flag |-> flag]

\* ParseError built from a message: what was expected, or the direction of a
\* range violation and the type it names
ParseError(kind, detail, target) ==
    [kind |-> kind, detail |-> detail, target |-> target]

\* Result<Self, ParseError>
Ok(value) == [ok |-> TRUE, value |-> <<value>>, error |-> <<>>]
Err(error) == [ok |-> FALSE, value |-> <<>>, error |-> <<error>>]

\* the primitive impls: the type, the variant it accepts, the message
Primitives ==
    ("String"    :> [variant |-> "String",      message |-> "String expected"]) @@
    ("i64"       :> [variant |-> "Integer",     message |-> "Integer expected"]) @@
    ("u64"       :> [variant |-> "Integer",     message |-> "Integer expected"]) @@
    ("f64"       :> [variant |-> "Number",      message |-> "Number expected"]) @@
    ("bool"      :> [variant |-> "Boolean",     message |-> "Boolean expected"]) @@
    ("ChannelId" :> [variant |-> "Channel",     message |-> "Channel expected"]) @@
    ("UserId"    :> [variant |-> "User",        message |-> "User expected"]) @@
    ("RoleId"    :> [variant |-> "Role",        message |-> "Role expected"]) @@
    ("GenericId" :> [variant |-> "Mentionable", message |-> "Mentionable expected"])

\* a primitive that also takes a Focused value for its own variant
parse_primitive_lenient(ty, value) ==
    IF IsSome(value) /\ Unwrap(value).kind \in {Primitives[ty].variant, "Focused"}
    THEN Ok([Unwrap(value) EXCEPT !.kind = ty])
    ELSE Err(ParseError("expected", Primitives[ty].message, ""))

\* impl Parse for String / i64 / u64 / f64 / bool / ChannelId / UserId /
\* RoleId / GenericId: the carried value when the variant matches (for u64
\* the word of the i64, reinterpreted), the message otherwise
parse_primitive(ty, value) ==
    IF IsSome(value) /\ Unwrap(value).kind = Primitives[ty].variant
    THEN Ok([Unwrap(value) EXCEPT !.kind = ty])
    ELSE Err(ParseError("expected", Primitives[ty].message, ""))

\* impl_derived_parse! { [i8, i16, i32, i128, isize] from i64,
\*                       [u8, u16, u32, u128, usize] from u64 }
\* (isize and usize of a 64-bit target)
Derived ==
    ("i8"    :> [prim |-> "i64", bits |-> 8,   signed |-> TRUE]) @@
    ("i16"   :> [prim |-> "i64", bits |-> 16,  signed |-> TRUE]) @@
    ("i32"   :> [prim |-> "i64", bits |-> 32,  signed |-> TRUE]) @@
    ("i128"  :> [prim |-> "i64", bits |-> 128, signed |-> TRUE]) @@
    ("isize" :> [prim |-> "i64", bits |-> 64,  signed |-> TRUE]) @@
    ("u8"    :> [prim |-> "u64", bits |-> 8,   signed |-> FALSE]) @@
    ("u16"   :> [prim |-> "u64", bits |-> 16,  signed |-> FALSE]) @@
    ("u32"   :> [prim |-> "u64", bits |-> 32,  signed |-> FALSE]) @@
    ("u128"  :> [prim |-> "u64", bits |-> 128, signed |-> FALSE]) @@
    ("usize" :> [prim |-> "u64", bits |-> 64,  signed |-> FALSE])

\* <$derived>::MAX and <$derived>::MIN, sign-extended to 128 bits
derived_MAX(ty) ==
    IF Derived[ty].signed THEN Ones128(Derived[ty].bits - 1)
    ELSE Ones128(Derived[ty].bits)
derived_MIN(ty) ==
    IF Derived[ty].signed THEN Not(Ones128(Derived[ty].bits - 1))
    ELSE Ones128(0)

\* p > x in the primitive type
gt_prim(prim, p, x) == IF prim = "i64" THEN gt_i64(p, x) ELSE gt_u64(p, x)

\* p as $derived, kept as the 64-bit word of the same value: the low bits of
\* p, extended by the sign of the derived type
cast_derived(ty, p) ==
    LET bits == Derived[ty].bits
        signed == Derived[ty].signed
        fill(negative) == IF signed /\ negative THEN Limb - 1 ELSE 0
    IN  IF bits >= 64 THEN p
        ELSE IF bits = 32
        THEN << fill(p[3] >= Limb \div 2), fill(p[3] >= Limb \div 2),
                p[3], p[4] >>
        ELSE IF bits = 16
        THEN << fill(p[4] >= Limb \div 2), fill(p[4] >= Limb \div 2),
                fill(p[4] >= Limb \div 2), p[4] >>
        ELSE LET low == p[4] % 256
                 negative == low >= 128
             IN  << fill(negative), fill(negative), fill(negative),
                    IF signed /\ negative THEN low + (Limb - 256) ELSE low >>

\* a range check that lets the value just past the maximum through
check_range_off_by_one(ty, p) ==
    LET prim == Derived[ty].prim
        max == Low64(derived_MAX(ty))
    IN  IF gt_prim(prim, p.num, max)
           /\ gt_prim(prim, p.num, [max EXCEPT ![4] = max[4] + 1])
        THEN Err(ParseError("range", "greater", ty))
        ELSE IF gt_prim(prim, Low64(derived_MIN(ty)), p.num)
        THEN Err(ParseError("range", "less", ty))
        ELSE Ok([p EXCEPT !.kind = ty, !.num = cast_derived(ty, p.num)])

\* the range check of impl_derived_parse on the primitive's value
check_range(ty, p) ==
    LET prim == Derived[ty].prim
    IN  IF gt_prim(prim, p.num, Low64(derived_MAX(ty)))
        THEN Err(ParseError("range", "greater", ty))
        ELSE IF gt_prim(prim, Low64(derived_MIN(ty)), p.num)
        THEN Err(ParseError("range", "less", ty))
        ELSE Ok([p EXCEPT !.kind = ty, !.num = cast_derived(ty, p.num)])

\* impl Parse for $derived: the primitive's parse, its error propagated by ?
parse_derived(ty, value) ==
    LET p == parse_primitive(Derived[ty].prim, value)
    IN  IF ~p.ok THEN p ELSE check_range(ty, Unwrap(p.value))

\* an Option<T> that hands the failure of T on
parse_option_propagating(parsed) ==
    IF parsed.ok THEN Ok(Some(Unwrap(parsed.value))) ELSE parsed

\* impl Parse for Option<T>, given what T::parse returned
parse_option(parsed) ==
    IF parsed.ok THEN Ok(Some(Unwrap(parsed.value))) ELSE Ok(None)

\* E::from(ParseError) of the caller's error type
From_from(error) == [from |-> error]

\* a Result<T, E> that hands the failure of T on
parse_result_propagating(parsed) ==
    IF parsed.ok THEN Ok(parsed) ELSE parsed

\* impl Parse for Result<T, E>, given what T::parse returned:
\* Ok(result.map_err(From::from))
parse_result(parsed) ==
    IF parsed.ok THEN Ok(parsed)
    ELSE Ok(Err(From_from(Unwrap(parsed.error))))

\* A declared type is its wrappers followed by the leaf: <<"i8">>,
\* <<"Option", "i8">>, <<"Result", "String">>.
\* Parse::parse by declared type.
RECURSIVE parse(_, _)
parse(ty, value) ==
    IF ty[1] = "Option" THEN parse_option(parse(Tail(ty), value))
    ELSE IF ty[1] = "Result" THEN parse_result(parse(Tail(ty), value))
    ELSE IF ty[1] \in DOMAIN Derived THEN parse_derived(ty[1], value)
    ELSE parse_primitive(ty[1], value)

(* ------------------------------------------------------ parser: the inputs *)
\* an integer as sign and magnitude, the magnitude a 64-bit word
Big(negative, magnitude) == [negative |-> negative, magnitude |-> magnitude]

\* w - 1 and w + 1 on words
Dec(w) ==
    LET j == CHOOSE i \in 1..Len(w) :
                 w[i] # 0 /\ \A k \in (i + 1)..Len(w) : w[k] = 0
    IN  [i \in 1..Len(w) |-> IF i < j THEN w[i]
                             ELSE IF i = j THEN w[i] - 1 ELSE Limb - 1]
Inc(w) ==
    IF \A i \in 1..Len(w) : w[i] = Limb - 1 THEN [i \in 1..Len(w) |-> 0]
    ELSE LET j == CHOOSE i \in 1..Len(w) :
                      w[i] # Limb - 1
                      /\ \A k \in (i + 1)..Len(w) : w[k] = Limb - 1
         IN  [i \in 1..Len(w) |-> IF i < j THEN w[i]
                                  ELSE IF i = j THEN w[i] + 1 ELSE 0]

\* the i64 word of an integer, and the integer of an i64 word
Encode(v) == IF v.negative THEN Not(Dec(v.magnitude)) ELSE v.magnitude
Decode(w) ==
    IF w[1] >= Limb \div 2 THEN Big(TRUE, Inc(Not(w))) ELSE Big(FALSE, w)

\* the integers around the limits of every width, from i64::MIN to i64::MAX
IntegerSamples ==
    { Big(FALSE, m) : m \in
        { <<0, 0, 0, 0>>, <<0, 0, 0, 1>>, <<0, 0, 0, 127>>, <<0, 0, 0, 128>>,
          <<0, 0, 0, 255>>, <<0, 0, 0, 256>>, <<0, 0, 0, 32767>>,
          <<0, 0, 0, 32768>>, <<0, 0, 0, 65535>>, <<0, 0, 1, 0>>,
          <<0, 0, 32767, 65535>>, <<0, 0, 32768, 0>>, <<0, 0, 65535, 65535>>,
          <<0, 1, 0, 0>>, <<32767, 65535, 65535, 65535>> } }
    \cup
    { Big(TRUE, m) : m \in
        { <<0, 0, 0, 1>>, <<0, 0, 0, 128>>, <<0, 0, 0, 129>>,
          <<0, 0, 0, 32768>>, <<0, 0, 0, 32769>>, <<0, 0, 32768, 0>>,
          <<0, 0, 32768, 1>>, <<32768, 0, 0, 0>> } }

Integer(v) == Value("Integer", "", Encode(v), FALSE)

\* the values Parse::parse may be handed: nothing, or one of every variant
RawValues ==
    { None }
    \cup { Some(Integer(v)) : v \in IntegerSamples }
    \cup { Some(Value("String", t, Zero64, FALSE)) : t \in {"", "hello"} }
    \cup { Some(Value("Boolean", "", Zero64, b)) : b \in BOOLEAN }
    \cup { Some(Value(k, "", <<16384, 0, 0, 7>>, FALSE)) :
             k \in {"Number", "Channel", "User", "Role", "Mentionable"} }
    \cup { Some(Value("Focused", "he", Zero64, FALSE)),
           Some(Value("SubCommand", "", Zero64, FALSE)) }

Leaves == DOMAIN Primitives \cup DOMAIN Derived

DeclaredTypes ==
    { <<t>> : t \in Leaves }
    \cup { <<w, t>> : w \in {"Option", "Result"}, t \in Leaves }
    \cup { <<"Option", "Result", "i8">>, <<"Result", "Option", "i8">> }

ParseInputs ==
    { [ty |-> ty, value |-> v] : ty \in DeclaredTypes, v \in RawValues }

(* -------------------------------------------------------------- the state *)
VARIABLES
    commands,    \* Framework::commands
    groups,      \* Framework::groups
    before,      \* Framework::before, None or the hook
    after,       \* Framework::after, None or the hook
    waiters,     \* Framework::waiters, the Vec behind the mutex
    lock,        \* holder of the waiters mutex, 0 when free
    nextId,      \* identity given to the next registered waiter
    delivered,   \* waiter id -> what its delivery slot received
    pc,          \* position of each call of process
    cur,         \* the interaction each call of process is handling
    pos,         \* result of the scan of each call, None or Some(position)
    call,        \* what each command / autocomplete call of process did
    input,       \* the declared type and raw value handed to Parse::parse
    output       \* None, or what Parse::parse returned for input

vars == <<commands, groups, before, after, waiters, lock, nextId, delivered,
          pc, cur, pos, call, input, output>>

parser == <<input, output>>

registry == <<commands, groups, before, after>>
waiterState == <<waiters, lock, nextId, delivered, pos>>

Procs == 1..NumProcs

(* -------------------------------------------------------------- the router *)
\* Framework::get_next: removes and returns the first option only when it is
\* a SubCommand or a SubCommandGroup
get_next(options) ==
    IF options # <<>>
       /\ (options[1].kind = "SubCommand"
           \/ options[1].kind = "SubCommandGroup")
    THEN [next |-> Some(options[1]), options |-> Tail(options)]
    ELSE [next |-> None, options |-> options]

\* outcome of get_command: the command found (or None), the option list the
\* interaction is left with, and whether an unreachable!() was hit
Resolved(command, options) ==
    [command |-> command, options |-> options, panicked |-> FALSE]
Panicked(options) ==
    [command |-> None, options |-> options, panicked |-> TRUE]

\* a SubCommand arm that leaves the option list as get_next left it
get_command_subcommand_unshaped(group, next, rest) ==
    LET subcommands == as_simple(group.kind)
    IN  IF ~IsSome(subcommands) THEN Resolved(None, rest)
        ELSE Resolved(MapGet(Unwrap(subcommands), next.name), rest)

\* the SubCommand arm of get_command
get_command_subcommand(group, next, rest) ==
    LET subcommands == as_simple(group.kind)
    IN  IF ~IsSome(subcommands) THEN Resolved(None, rest)
        ELSE Resolved(MapGet(Unwrap(subcommands), next.name), next.options)

\* a SubCommandGroup arm that descends once more into the nested SubCommand
get_command_subgroup_deeper(group, next, rest) ==
    LET inner == get_next(next.options)
        subgroups == as_group(group.kind)
    IN  IF ~IsSome(inner.next) THEN Resolved(None, rest)
        ELSE IF ~IsSome(subgroups) THEN Resolved(None, rest)
        ELSE LET subgroup == MapGet(Unwrap(subgroups), next.name)
                 subcommand == Unwrap(inner.next)
             IN  IF ~IsSome(subgroup) THEN Resolved(None, rest)
                 ELSE IF subcommand.kind # "SubCommand" THEN Panicked(rest)
                 ELSE Resolved(MapGet(Unwrap(subgroup).subcommands,
                                      subcommand.name),
                               get_next(subcommand.options).options)

\* the SubCommandGroup arm of get_command
get_command_subgroup(group, next, rest) ==
    LET inner == get_next(next.options)
        subgroups == as_group(group.kind)
    IN  IF ~IsSome(inner.next) THEN Resolved(None, rest)
        ELSE IF ~IsSome(subgroups) THEN Resolved(None, rest)
        ELSE LET subgroup == MapGet(Unwrap(subgroups), next.name)
                 subcommand == Unwrap(inner.next)
             IN  IF ~IsSome(subgroup) THEN Resolved(None, rest)
                 ELSE IF subcommand.kind # "SubCommand" THEN Panicked(rest)
                 ELSE Resolved(MapGet(Unwrap(subgroup).subcommands,
                                      subcommand.name),
                               subcommand.options)

\* Framework::get_command
get_command(cmds, grps, interaction) ==
    IF ~IsSome(interaction.data) THEN Resolved(None, <<>>)
    ELSE
    LET data == Unwrap(interaction.data)
        n == get_next(data.options)
    IN  IF IsSome(n.next)
        THEN LET next == Unwrap(n.next)
                 group == MapGet(grps, data.name)
             IN  IF ~IsSome(group) THEN Resolved(None, n.options)
                 ELSE IF next.kind = "SubCommand"
                      THEN get_command_subcommand(Unwrap(group), next,
                                                  n.options)
                 ELSE IF next.kind = "SubCommandGroup"
                      THEN get_command_subgroup(Unwrap(group), next,
                                                n.options)
                 ELSE Resolved(None, n.options)
        ELSE Resolved(MapGet(cmds, data.name), n.options)

(* ---------------------------------------------------- execution pipeline *)
Event(ev, name, result, options) ==
    [ev |-> ev, name |-> name, result |-> result, options |-> options]

\* a pipeline that runs the after hook whether or not the handler ran
execute_after_always(bef, aft, cmd, options, permitted, outcome) ==
    LET proceed == IF IsSome(bef) THEN permitted ELSE TRUE
        ranBefore == IF IsSome(bef)
                     THEN << Event("before", cmd.name,
                               IF permitted THEN "true" ELSE "false",
                               <<>>) >>
                     ELSE <<>>
        ranHandler == IF proceed
                      THEN << Event("handler", cmd.name, outcome, options) >>
                      ELSE <<>>
        ranAfter == IF IsSome(aft)
                    THEN << Event("after", cmd.name, outcome, <<>>) >>
                    ELSE <<>>
    IN  ranBefore \o ranHandler \o ranAfter

\* a pipeline that runs the after hook only when the handler succeeded
execute_after_on_success(bef, aft, cmd, options, permitted, outcome) ==
    LET proceed == IF IsSome(bef) THEN permitted ELSE TRUE
        ranBefore == IF IsSome(bef)
                     THEN << Event("before", cmd.name,
                               IF permitted THEN "true" ELSE "false",
                               <<>>) >>
                     ELSE <<>>
        ranHandler == << Event("handler", cmd.name, outcome, options) >>
        ranAfter == IF IsSome(aft) /\ outcome = "Ok"
                    THEN << Event("after", cmd.name, outcome, <<>>) >>
                    ELSE <<>>
    IN  IF proceed THEN ranBefore \o ranHandler \o ranAfter
        ELSE ranBefore

\* a pipeline that calls the handler only when every check of the command
\* answers true
execute_checked(bef, aft, cmd, options, permitted, outcome) ==
    LET proceed == /\ IF IsSome(bef) THEN permitted ELSE TRUE
                   /\ \A k \in 1..Len(cmd.checks) :
                         CheckAnswers[cmd.checks[k]]
        ranBefore == IF IsSome(bef)
                     THEN << Event("before", cmd.name,
                               IF permitted THEN "true" ELSE "false",
                               <<>>) >>
                     ELSE <<>>
        ranHandler == << Event("handler", cmd.name, outcome, options) >>
        ranAfter == IF IsSome(aft)
                    THEN << Event("after", cmd.name, outcome, <<>>) >>
                    ELSE <<>>
    IN  IF proceed THEN ranBefore \o ranHandler \o ranAfter
        ELSE ranBefore

\* Framework::execute: permitted is what the before hook answers when it is
\* configured, outcome is what the handler returns
execute(bef, aft, cmd, options, permitted, outcome) ==
    LET proceed == IF IsSome(bef) THEN permitted ELSE TRUE
        ranBefore == IF IsSome(bef)
                     THEN << Event("before", cmd.name,
                               IF permitted THEN "true" ELSE "false",
                               <<>>) >>
                     ELSE <<>>
        ranHandler == << Event("handler", cmd.name, outcome, options) >>
        ranAfter == IF IsSome(aft)
                    THEN << Event("after", cmd.name, outcome, <<>>) >>
                    ELSE <<>>
    IN  IF proceed THEN ranBefore \o ranHandler \o ranAfter
        ELSE ranBefore

HandlerOutcomes == {"Ok", "Err"}

(* ------------------------------------------- the generated command function *)
\* the arguments the function behind each command declares after its
\* context, in order: the name looked up and the declared type
Argument(name, ty) == [name |-> name, ty |-> ty]

Signatures ==
    ("/ping" :> <<>>) @@
    ("/s" :> << Argument("x", <<"Option", "String">>) >>) @@
    ("/g/s" :> << Argument("x", <<"Option", "String">>),
                  Argument("y", <<"String">>),
                  Argument("z", <<"i8">>) >>) @@
    ("/g/t" :> <<>>) @@
    ("/h/sg/s" :> << Argument("y", <<"Result", "String">>) >>) @@
    ("/h/s/t" :> <<>>)

\* DataIterator::new(vec![]): the iterator the block parses from is built
\* from an empty vector, whatever options the interaction carries
initial_options(received) == <<>>

\* the value of an option as Parse::parse sees it
as_value(option) == Value(option.kind, option.value, Zero64, FALSE)

\* DataIterator::get: removes and returns the first entry named name
RECURSIVE iterator_get(_, _)
iterator_get(options, name) ==
    IF options = <<>> THEN [found |-> None, options |-> <<>>]
    ELSE IF options[1].name = name
    THEN [found |-> Some(options[1]), options |-> Tail(options)]
    ELSE LET rest == iterator_get(Tail(options), name)
         IN  [found |-> rest.found, options |-> <<options[1]>> \o rest.options]

\* Parse::named_parse: takes the entry of that name out of the iterator and
\* parses its value, or no value, as the declared type
named_parse(name, ty, options) ==
    LET got == iterator_get(options, name)
    IN  [result |-> parse(ty, IF IsSome(got.found)
                              THEN Some(as_value(Unwrap(got.found)))
                              ELSE None),
         options |-> got.options]

Parsed(name, result) == [name |-> name, result |-> result]

\* a parsing block that goes on to the next argument after a failure
RECURSIVE parse_arguments_keep_going(_, _, _)
parse_arguments_keep_going(signature, options, parsed) ==
    IF signature = <<>>
    THEN [parsed |-> parsed, options |-> options, error |-> None]
    ELSE LET r == named_parse(signature[1].name, signature[1].ty, options)
         IN  parse_arguments_keep_going(Tail(signature), r.options,
                 Append(parsed, Parsed(signature[1].name, r.result)))

\* #(let #names: #types = named_parse(#renames, .., &mut __options).await?;)*
\* one statement per declared argument, the ? returning the first error
RECURSIVE parse_arguments(_, _, _)
parse_arguments(signature, options, parsed) ==
    IF signature = <<>>
    THEN [parsed |-> parsed, options |-> options, error |-> None]
    ELSE LET r == named_parse(signature[1].name, signature[1].ty, options)
             done == Append(parsed, Parsed(signature[1].name, r.result))
         IN  IF ~r.result.ok
             THEN [parsed |-> done, options |-> r.options,
                   error |-> r.result.error]
             ELSE parse_arguments(Tail(signature), r.options, done)

\* what a call of the generated function did: the arguments it parsed, what
\* was left in the iterator, whether the original block ran, the result
Ran(parsed, options, body, result, error) ==
    [parsed |-> parsed, options |-> options, body |-> body,
     result |-> result, error |-> error]

\* the function the macro generates: the parsing block, the check for
\* entries left in the iterator, then the original block, which returns
\* outcome
fun(path, received, outcome) ==
    LET p == parse_arguments(Signatures[path], initial_options(received),
                             <<>>)
    IN  IF IsSome(p.error)
        THEN Ran(p.parsed, p.options, FALSE, "Err", p.error)
        ELSE IF Len(p.options) > 0
        THEN Ran(p.parsed, p.options, FALSE, "Err",
                 Some(ParseError("structure", "Too many arguments received",
                                 "")))
        ELSE Ran(p.parsed, p.options, TRUE, outcome, None)

Call(arm, interaction, resolved, events, ran) ==
    [arm |-> arm, interaction |-> interaction,
     command |-> resolved.command, options |-> resolved.options,
     panicked |-> resolved.panicked, events |-> events, fun |-> ran,
     found |-> None, owner |-> None]

\* Framework::try_execute; (cmd.fun)(context) is the generated function
try_execute(p, interaction) ==
    LET r == get_command(commands, groups, interaction)
    IN  /\ \E permitted \in BOOLEAN, outcome \in HandlerOutcomes :
             LET ran == fun(Unwrap(r.command).path, r.options, outcome)
                 events == execute(before, after, Unwrap(r.command),
                                   r.options, permitted, ran.result)
                 invoked == \E k \in 1..Len(events) :
                                events[k].ev = "handler"
             IN  call' = [call EXCEPT ![p] =
                        Some(IF IsSome(r.command)
                             THEN Call("try_execute", interaction, r, events,
                                       IF invoked THEN Some(ran) ELSE None)
                             ELSE Call("try_execute", interaction, r, <<>>,
                                       None))]
        /\ cur' = [cur EXCEPT ![p] = Some(interaction)]
        /\ pc' = [pc EXCEPT ![p] = IF r.panicked THEN "panicked" ELSE "done"]
        /\ UNCHANGED <<registry, parser, waiterState>>

(* ---------------------------------------------------- autocomplete resolver *)
\* a get_focus that returns the last option holding a Focused value
RECURSIVE get_focus_last(_)
get_focus_last(data) ==
    IF data = <<>> THEN None
    ELSE IF data[Len(data)].kind = "Focused" THEN Some(data[Len(data)])
    ELSE get_focus_last(SubSeq(data, 1, Len(data) - 1))

\* Framework::get_focus: the first option holding a Focused value
RECURSIVE get_focus(_)
get_focus(data) ==
    IF data = <<>> THEN None
    ELSE IF data[1].kind = "Focused" THEN Some(data[1])
    ELSE get_focus(Tail(data))

\* position of the first declared argument named as the focused option
RECURSIVE argument_position(_, _)
argument_position(arguments, name) ==
    IF arguments = <<>> THEN None
    ELSE IF arguments[1].name = name THEN Some(arguments[1])
    ELSE argument_position(Tail(arguments), name)

\* the tail shared by the three arms of get_autocomplete_argument
locate_argument(command, focused) ==
    IF ~IsSome(focused) \/ ~IsSome(command) THEN None
    ELSE LET argument == argument_position(Unwrap(command).arguments,
                                           Unwrap(focused).name)
         IN  IF ~IsSome(argument) THEN None
             ELSE Some([argument |-> Unwrap(argument),
                        focused |-> [input |-> Unwrap(focused).value,
                                     kind |-> Unwrap(focused).tag],
                        owner |-> Unwrap(command).path])

\* a resolver that looks the subcommand up among the flat commands
get_autocomplete_argument_flat(cmds, grps, data) ==
    IF data.options = <<>> THEN None
    ELSE LET outer == data.options[1]
         IN  IF outer.kind = "SubCommand"
             THEN locate_argument(MapGet(cmds, outer.name),
                                  get_focus(outer.options))
             ELSE locate_argument(MapGet(cmds, data.name),
                                  get_focus(data.options))

\* Framework::get_autocomplete_argument; the argument returned is a reference
\* into the arguments of one command, owner being that command
get_autocomplete_argument(cmds, grps, data) ==
    IF data.options = <<>> THEN None
    ELSE
    LET outer == data.options[1]
        parent == MapGet(grps, data.name)
    IN  IF outer.kind = "SubCommandGroup"
        THEN IF outer.options = <<>> THEN None
             ELSE IF ~IsSome(parent) THEN None
             ELSE LET map == as_group(Unwrap(parent).kind)
                      next == outer.options[1]
                  IN  IF ~IsSome(map) THEN None
                      ELSE LET group == MapGet(Unwrap(map), outer.name)
                           IN  IF ~IsSome(group) THEN None
                               ELSE IF next.kind # "SubCommand" THEN None
                               ELSE locate_argument(
                                        MapGet(Unwrap(group).subcommands,
                                               next.name),
                                        get_focus(next.options))
        ELSE IF outer.kind = "SubCommand"
        THEN IF outer.options = <<>> THEN None
             ELSE IF ~IsSome(parent) THEN None
             ELSE LET group == as_simple(Unwrap(parent).kind)
                  IN  IF ~IsSome(group) THEN None
                      ELSE locate_argument(MapGet(Unwrap(group), outer.name),
                                           get_focus(outer.options))
        ELSE locate_argument(MapGet(cmds, data.name),
                             get_focus(data.options))

\* Framework::try_autocomplete: the unwrap of a missing data panics; a
\* response is sent only when the located argument can autocomplete
try_autocomplete(p, interaction) ==
    LET found == IF IsSome(interaction.data)
                 THEN get_autocomplete_argument(commands, groups,
                                                Unwrap(interaction.data))
                 ELSE None
        responded == IsSome(found) /\ Unwrap(found).argument.autocomplete
    IN  /\ call' = [call EXCEPT ![p] =
                      Some([arm |-> "try_autocomplete",
                            interaction |-> interaction,
                            command |-> None,
                            options |-> IF IsSome(interaction.data)
                                        THEN Unwrap(interaction.data).options
                                        ELSE <<>>,
                            panicked |-> ~IsSome(interaction.data),
                            fun |-> None,
                            found |-> IF IsSome(found)
                                      THEN Some([argument |->
                                                   Unwrap(found).argument,
                                                 focused |->
                                                   Unwrap(found).focused])
                                      ELSE None,
                            owner |-> IF IsSome(found)
                                      THEN Some(Unwrap(found).owner)
                                      ELSE None,
                            events |-> IF responded
                                       THEN << Event("autocomplete",
                                                 Unwrap(found).argument.name,
                                                 Unwrap(found).focused.input,
                                                 <<>>) >>
                                       ELSE <<>>])]
        /\ cur' = [cur EXCEPT ![p] = Some(interaction)]
        /\ pc' = [pc EXCEPT ![p] = IF IsSome(interaction.data) THEN "done"
                                   ELSE "panicked"]
        /\ UNCHANGED <<registry, parser, waiterState>>

(* --------------------------------------------------------- waiter registry *)
\* what identifies a component interaction to a predicate
ComponentNames == {"confirm", "cancel"}

ComponentInputs ==
    { Interaction(k, Some(CommandData(n, <<>>))) :
        k \in {"MessageComponent", "ModalSubmit"},
        n \in ComponentNames }

\* a predicate is the set of component names it accepts: none, one, all
Predicates == { {}, {"confirm"}, ComponentNames }

WaiterWaker(id, accepts) == [id |-> id, accepts |-> accepts]

\* WaiterWaker::check
check(waker, interaction) ==
    IsSome(interaction.data) /\ Unwrap(interaction.data).name \in waker.accepts

\* a scan that keeps the latest accepting waiter instead of the earliest
RECURSIVE position_last(_, _, _)
position_last(list, interaction, k) ==
    LET later == IF k > Len(list) THEN None
                 ELSE position_last(list, interaction, k + 1)
    IN  IF k > Len(list) THEN None
        ELSE IF IsSome(later) THEN later
        ELSE IF check(list[k], interaction) THEN Some(k)
        ELSE None

\* Iterator::position over the waiters
RECURSIVE position(_, _, _)
position(list, interaction, k) ==
    IF k > Len(list) THEN None
    ELSE IF check(list[k], interaction) THEN Some(k)
    ELSE position(list, interaction, k + 1)

\* a removal that also drops every waiter in front of the one woken
remove_through(list, k) == SubSeq(list, k + 1, Len(list))

\* Vec::remove
remove(list, k) == SubSeq(list, 1, k - 1) \o SubSeq(list, k + 1, Len(list))

\* a handler registers a waiter: the pair is pushed at the end of the list
\* under the lock
RegisterWaiter(accepts) ==
    /\ nextId <= MaxWaiters
    /\ lock = 0
    /\ waiters' = Append(waiters, WaiterWaker(nextId, accepts))
    /\ nextId' = nextId + 1
    /\ UNCHANGED <<registry, parser, lock, delivered, pc, cur, pos, call>>

\* a lock that does not exclude a second holder
lock_waiters_shared(p) ==
    /\ pc[p] = "lock"
    /\ lock' = p
    /\ pc' = [pc EXCEPT ![p] = "scan"]
    /\ UNCHANGED <<registry, parser, waiters, nextId, delivered, cur, pos, call>>

\* process, MessageComponent arm: self.waiters.lock()
lock_waiters(p) ==
    /\ pc[p] = "lock"
    /\ lock = 0
    /\ lock' = p
    /\ pc' = [pc EXCEPT ![p] = "scan"]
    /\ UNCHANGED <<registry, parser, waiters, nextId, delivered, cur, pos, call>>

\* process, MessageComponent arm: lock.iter().position(...)
scan_waiters(p) ==
    /\ pc[p] = "scan"
    /\ LET found == position(waiters, Unwrap(cur[p]), 1)
       IN  /\ pos' = [pos EXCEPT ![p] = found]
           /\ pc' = [pc EXCEPT ![p] = IF IsSome(found) THEN "remove"
                                      ELSE "unlock"]
    /\ UNCHANGED <<registry, parser, waiters, lock, nextId, delivered, cur, call>>

\* process, MessageComponent arm: lock.remove(position).wake(interaction);
\* Vec::remove panics on an index past the end
remove_and_wake(p) ==
    /\ pc[p] = "remove"
    /\ LET k == Unwrap(pos[p])
       IN  IF k <= Len(waiters)
           THEN /\ waiters' = remove(waiters, k)
                /\ delivered' = [delivered EXCEPT ![waiters[k].id] =
                                    Append(@, [waker |-> waiters[k],
                                               interaction |->
                                                  Unwrap(cur[p])])]
                /\ pc' = [pc EXCEPT ![p] = "unlock"]
           ELSE /\ pc' = [pc EXCEPT ![p] = "panicked"]
                /\ UNCHANGED <<waiters, delivered>>
    /\ UNCHANGED <<registry, parser, lock, nextId, cur, pos, call>>

\* process, MessageComponent arm: the guard is dropped at the end of the arm
unlock_waiters(p) ==
    /\ pc[p] = "unlock"
    /\ lock' = IF lock = p THEN 0 ELSE lock
    /\ pc' = [pc EXCEPT ![p] = "done"]
    /\ UNCHANGED <<registry, parser, waiters, nextId, delivered, cur, pos, call>>

\* a return that also forgets the waiters still registered
return_clearing(p) ==
    /\ pc[p] = "done"
    /\ pc' = [pc EXCEPT ![p] = "idle"]
    /\ cur' = [cur EXCEPT ![p] = None]
    /\ pos' = [pos EXCEPT ![p] = None]
    /\ call' = [call EXCEPT ![p] = None]
    /\ waiters' = <<>>
    /\ UNCHANGED <<registry, parser, lock, nextId, delivered>>

\* process returns
return(p) ==
    /\ pc[p] = "done"
    /\ pc' = [pc EXCEPT ![p] = "idle"]
    /\ cur' = [cur EXCEPT ![p] = None]
    /\ pos' = [pos EXCEPT ![p] = None]
    /\ call' = [call EXCEPT ![p] = None]
    /\ UNCHANGED <<registry, parser, waiters, lock, nextId, delivered>>

(* -------------------------------------------------------------- dispatcher *)
\* a dispatcher that sends every kind but the two command kinds to the
\* waiter registry
process_any_kind(p, interaction) ==
    /\ pc[p] = "idle"
    /\ CASE interaction.kind = "ApplicationCommand" ->
              try_execute(p, interaction)
         [] interaction.kind = "ApplicationCommandAutocomplete" ->
              try_autocomplete(p, interaction)
         [] OTHER ->
              /\ cur' = [cur EXCEPT ![p] = Some(interaction)]
              /\ pc' = [pc EXCEPT ![p] = "lock"]
              /\ UNCHANGED <<registry, parser, waiters, lock, nextId, delivered,
                             pos, call>>

\* Framework::process: the match on interaction.kind
process(p, interaction) ==
    /\ pc[p] = "idle"
    /\ CASE interaction.kind = "ApplicationCommand" ->
              try_execute(p, interaction)
         [] interaction.kind = "ApplicationCommandAutocomplete" ->
              try_autocomplete(p, interaction)
         [] interaction.kind = "MessageComponent" ->
              /\ cur' = [cur EXCEPT ![p] = Some(interaction)]
              /\ pc' = [pc EXCEPT ![p] = "lock"]
              /\ UNCHANGED <<registry, parser, waiters, lock, nextId, delivered,
                             pos, call>>
         [] OTHER ->
              /\ cur' = [cur EXCEPT ![p] = Some(interaction)]
              /\ pc' = [pc EXCEPT ![p] = "done"]
              /\ UNCHANGED <<registry, parser, waiters, lock, nextId, delivered,
                             pos, call>>

(* ---------------------------------------------------------- specifications *)
\* Framework::from_builder
InitFramework ==
    /\ commands = BuilderCommands
    /\ groups = BuilderGroups
    /\ before \in {None, Some("before")}
    /\ after \in {None, Some("after")}
    /\ waiters = <<>>
    /\ lock = 0
    /\ nextId = 1
    /\ delivered = [id \in 1..MaxWaiters |-> <<>>]
    /\ pc = [p \in Procs |-> "idle"]
    /\ cur = [p \in Procs |-> None]
    /\ pos = [p \in Procs |-> None]
    /\ call = [p \in Procs |-> None]

\* no argument is being parsed on its own
Init == InitFramework /\ input = None /\ output = None

\* command invocations and autocomplete requests
Next ==
    \/ \E interaction \in CommandInputs : process(1, interaction)
    \/ return(1)

Spec == Init /\ [][Next]_vars

\* component interactions against the waiter registry, calls interleaved
NextWaiters ==
    \/ \E accepts \in Predicates : RegisterWaiter(accepts)
    \/ \E p \in Procs, interaction \in ComponentInputs :
          process(p, interaction)
    \/ \E p \in Procs : lock_waiters(p)
    \/ \E p \in Procs : scan_waiters(p)
    \/ \E p \in Procs : remove_and_wake(p)
    \/ \E p \in Procs : unlock_waiters(p)
    \/ \E p \in Procs : return(p)

\* the hooks play no part in the component arm: a framework built without
\* hooks
InitWaiters == Init /\ before = None /\ after = None

SpecWaiters == InitWaiters /\ [][NextWaiters]_vars

\* the option lists of the calls that are mixed with component interactions:
\* one for each arm of the router and of the autocomplete resolver
FrameOptions ==
    { <<>>,
      << Focused("x", "he", "String") >>,
      << SubCommand("s", << Focused("x", "he", "String") >>) >>,
      << SubCommandGroup("sg", << SubCommand("s", <<>>) >>) >> }

FrameInputs ==
    { i \in CommandInputs :
        IsSome(i.data) => Unwrap(i.data).options \in FrameOptions }
    \cup ComponentInputs

\* calls of process of every kind, one after the other, while handlers
\* register waiters
NextFrame ==
    \/ \E accepts \in Predicates : RegisterWaiter(accepts)
    \/ \E interaction \in FrameInputs : process(1, interaction)
    \/ lock_waiters(1)
    \/ scan_waiters(1)
    \/ remove_and_wake(1)
    \/ unlock_waiters(1)
    \/ return(1)

\* a framework built with both hooks
InitFrame == Init /\ IsSome(before) /\ IsSome(after)

SpecFrame == InitFrame /\ [][NextFrame]_vars

\* Parse::parse applied to the input
parse_argument ==
    /\ IsSome(input)
    /\ output = None
    /\ output' = Some(parse(Unwrap(input).ty, Unwrap(input).value))
    /\ UNCHANGED <<registry, waiterState, pc, cur, call, input>>

NextParse == parse_argument

\* one declared type and one raw value, drawn from the inputs
InitParse ==
    /\ InitFramework /\ before = None /\ after = None
    /\ input \in { Some(i) : i \in ParseInputs }
    /\ output = None

SpecParse == InitParse /\ [][NextParse]_vars

(* ------------------------------------------------ waiter registry: claims *)
NotRouted == {"ApplicationCommand", "ApplicationCommandAutocomplete"}

Accepting(list, interaction) ==
    { k \in 1..Len(list) : check(list[k], interaction) }

\* the step in which call p removes and wakes a waiter
Wakes(p) == pc[p] = "remove" /\ pc'[p] = "unlock"

\* the list without its k-th entry, the others in place
Without(list, k) ==
    [j \in 1..(Len(list) - 1) |-> IF j < k THEN list[j] ELSE list[j + 1]]

Delivery(waker, interaction) ==
    [waker |-> waker, interaction |-> interaction]

\* C1: a call routed to the waiter registry removes and wakes the
\* earliest-inserted waiter whose predicate accepts the interaction, hands it
\* exactly that interaction, and wakes no other waiter.
C1_FirstAcceptingWaiterWoken ==
    [][\A p \in Procs : Wakes(p) =>
         LET i == Unwrap(cur[p])
             acc == Accepting(waiters, i)
         IN  /\ acc # {}
             /\ \E k \in acc :
                  /\ \A j \in acc : k <= j /\ waiters[k].id <= waiters[j].id
                  /\ \A j \in 1..(k - 1) : ~check(waiters[j], i)
                  /\ delivered' =
                       [delivered EXCEPT ![waiters[k].id] =
                          Append(@, Delivery(waiters[k], i))]
                  /\ \A j \in 1..Len(waiters') :
                       waiters'[j].id # waiters[k].id]_vars

\* several registered predicates accepted the interaction, the earliest
\* inserted was woken and a later one is still registered
C1_Witness ==
    \E id \in 1..MaxWaiters, k \in 1..Len(waiters) :
        /\ Len(delivered[id]) = 1
        /\ waiters[k].id > id
        /\ check(waiters[k], delivered[id][1].interaction)


\* C2: the call that wakes a waiter removes that waiter alone, every other
\* waiter keeps its place relative to the others; every other step of a call,
\* and in particular a scan in which no predicate accepts, leaves the list and
\* the delivery slots as they were.
C2_OnlyWokenWaiterRemoved ==
    [][\A p \in Procs : pc'[p] # pc[p] =>
         IF Wakes(p)
         THEN \E k \in 1..Len(waiters) :
                 /\ waiters' = Without(waiters, k)
                 /\ \A id \in 1..MaxWaiters :
                       id # waiters[k].id => delivered'[id] = delivered[id]
                 /\ Len(delivered'[waiters[k].id]) =
                       Len(delivered[waiters[k].id]) + 1
         ELSE /\ waiters' = waiters
              /\ delivered' = delivered
              /\ (pc[p] = "scan" /\ Accepting(waiters, Unwrap(cur[p])) = {})
                    => pc'[p] = "unlock"]_vars

\* a waiter registered after a rejecting one was woken, and the rejecting
\* one is still registered
C2_Witness ==
    \E id \in 1..MaxWaiters, k \in 1..Len(waiters) :
        /\ Len(delivered[id]) = 1
        /\ waiters[k].id < id
        /\ ~check(waiters[k], delivered[id][1].interaction)

Critical == {"scan", "remove", "unlock"}

\* C3: under every interleaving of calls the scan-and-remove is atomic: one
\* call at a time is between its lock and its unlock, the position a call
\* found still names the accepting waiter when the call removes it, every
\* delivery slot is fulfilled at most once and by an interaction its predicate
\* accepts, a woken waiter is no longer in the list, and one step wakes at
\* most one waiter.
C3_ScanAndRemoveAtomic ==
    /\ [](/\ \A p, q \in Procs :
               (p # q /\ pc[p] \in Critical) => pc[q] \notin Critical
          /\ \A p \in Procs : pc[p] \in Critical => lock = p
          /\ \A p \in Procs : pc[p] # "panicked"
          /\ \A p \in Procs : pc[p] = "remove" =>
               /\ IsSome(pos[p])
               /\ Unwrap(pos[p]) \in Accepting(waiters, Unwrap(cur[p]))
          /\ \A id \in 1..MaxWaiters :
               /\ Len(delivered[id]) <= 1
               /\ delivered[id] # <<>> =>
                    /\ check(delivered[id][1].waker,
                             delivered[id][1].interaction)
                    /\ \A k \in 1..Len(waiters) : waiters[k].id # id)
    /\ [][Cardinality({ id \in 1..MaxWaiters :
                          delivered'[id] # delivered[id] }) <= 1]_vars

\* a second call waits for the lock while the first is about to remove the
\* waiter that also accepts the second call's interaction
C3_Witness ==
    \E p, q \in Procs :
        /\ p # q
        /\ pc[p] = "remove"
        /\ pc[q] = "lock"
        /\ check(waiters[Unwrap(pos[p])], Unwrap(cur[q]))

\* C4 as stated: every interaction that is neither a command invocation nor
\* an autocomplete request is taken to the waiter registry to be scanned.
C4_EveryOtherKindScanned ==
    [][\A p \in Procs :
         (pc[p] = "idle" /\ pc'[p] # "idle"
            /\ Unwrap(cur'[p]).kind \notin NotRouted)
         => pc'[p] = "lock"]_vars

\* C4 amended: a call scans the waiter registry exactly when its interaction is
\* a MessageComponent, and then a waiter is woken whenever one accepts; a call
\* with any other kind outside the two command kinds returns without touching
\* the list or a delivery slot.
C4_OnlyComponentsScanned ==
    /\ [][\A p \in Procs :
            (pc[p] = "idle" /\ pc'[p] # "idle"
               /\ Unwrap(cur'[p]).kind \notin NotRouted)
            => /\ waiters' = waiters /\ delivered' = delivered
               /\ pc'[p] = IF Unwrap(cur'[p]).kind = "MessageComponent"
                           THEN "lock" ELSE "done"]_vars
    /\ [](\A p \in Procs :
            /\ pc[p] \in Critical =>
                  Unwrap(cur[p]).kind = "MessageComponent"
            /\ pc[p] = "unlock" =>
                  \/ IsSome(pos[p])
                  \/ Accepting(waiters, Unwrap(cur[p])) = {})

\* one call has woken a waiter with a MessageComponent while another call
\* has dropped a ModalSubmit that a registered waiter would accept
C4_Witness ==
    \E p, q \in Procs :
        /\ pc[p] = "unlock" /\ IsSome(pos[p])
        /\ pc[q] = "done"
        /\ Unwrap(cur[q]).kind = "ModalSubmit"
        /\ Accepting(waiters, Unwrap(cur[q])) # {}

(* ------------------------------------------- router and pipeline: claims *)
\* the command invocations that carry data, as process handled them
Executions ==
    { Unwrap(call[p]) : p \in { q \in Procs :
          /\ IsSome(call[q])
          /\ Unwrap(call[q]).arm = "try_execute"
          /\ IsSome(Unwrap(call[q]).interaction.data) } }

Data(c) == Unwrap(c.interaction.data)

EventNames(c) == [k \in 1..Len(c.events) |-> c.events[k].ev]

HandlerEvents(c) ==
    { k \in 1..Len(c.events) : c.events[k].ev = "handler" }

\* C5 as stated: whatever the shape of the option list, get_command resolves
\* a command or returns no match without crashing, and on no match neither
\* the handler nor a hook runs.
C5_RoutingNeverCrashes ==
    \A p \in Procs : IsSome(call[p]) /\ Unwrap(call[p]).arm = "try_execute" =>
        /\ ~Unwrap(call[p]).panicked
        /\ pc[p] # "panicked"
        /\ ~IsSome(Unwrap(call[p]).command) => Unwrap(call[p]).events = <<>>

\* C6: a first option SubCommand named s under a name that maps to a simple
\* group holding s resolves the command registered under s in that group,
\* and the handler receives the SubCommand's nested option list unchanged;
\* under a name that maps to a group of subgroups nothing is resolved.
C6_SubCommandRouting ==
    \A c \in Executions :
        (Data(c).options # <<>> /\ Data(c).options[1].kind = "SubCommand"
            /\ Data(c).name \in DOMAIN groups) =>
        LET first == Data(c).options[1]
            kind == groups[Data(c).name].kind
        IN  /\ (kind.variant = "Simple" /\ first.name \in DOMAIN kind.map) =>
                  /\ c.command = Some(kind.map[first.name])
                  /\ c.options = first.options
                  /\ \A k \in HandlerEvents(c) :
                        c.events[k].options = first.options
            /\ kind.variant = "Group" =>
                  /\ c.command = None
                  /\ c.events = <<>>

\* "g" with [SubCommand("s", [x = "hello"])] ran the handler of g's "s" on
\* [x = "hello"]
C6_Witness ==
    \E c \in Executions :
        /\ Data(c).name = "g"
        /\ Data(c).options = << SubCommand("s", << String("x", "hello") >>) >>
        /\ c.command = Some(BuilderGroups["g"].kind.map["s"])
        /\ \E k \in HandlerEvents(c) :
               c.events[k].options = << String("x", "hello") >>

\* C7: a first option SubCommandGroup named sg whose first nested option is a
\* SubCommand named s, under a name that maps to a group of subgroups holding
\* sg holding s, resolves that command; the handler receives the nested
\* SubCommand's option list as it is, a SubCommand inside it is not descended
\* into.
C7_SubCommandGroupRouting ==
    \A c \in Executions :
        (/\ Data(c).options # <<>>
         /\ Data(c).options[1].kind = "SubCommandGroup"
         /\ Data(c).options[1].options # <<>>
         /\ Data(c).options[1].options[1].kind = "SubCommand"
         /\ Data(c).name \in DOMAIN groups
         /\ groups[Data(c).name].kind.variant = "Group"
         /\ Data(c).options[1].name \in DOMAIN groups[Data(c).name].kind.map)
        =>
        LET first == Data(c).options[1]
            nested == first.options[1]
            subgroup == groups[Data(c).name].kind.map[first.name]
        IN  nested.name \in DOMAIN subgroup.subcommands =>
               /\ c.command = Some(subgroup.subcommands[nested.name])
               /\ c.options = nested.options
               /\ \A k \in HandlerEvents(c) :
                     c.events[k].options = nested.options

\* "h" / "sg" / "s" ran the handler of that command on a list that itself
\* starts with a SubCommand
C7_Witness ==
    \E c \in Executions :
        /\ Data(c).name = "h"
        /\ Data(c).options =
              << SubCommandGroup("sg",
                    << SubCommand("s", << SubCommand("s", <<>>) >>) >>) >>
        /\ c.command = Some(BuilderGroups["h"].kind.map["sg"].subcommands["s"])
        /\ \E k \in HandlerEvents(c) :
               c.events[k].options = << SubCommand("s", <<>>) >>

\* C8: an invocation with an empty option list resolves the top-level command
\* registered under exactly its name, and nothing when no top-level command
\* has that name (a group of that name or a name differing in case does not
\* count).
C8_FlatCommandByExactName ==
    \A c \in Executions : Data(c).options = <<>> =>
        /\ Data(c).name \in DOMAIN commands =>
              /\ c.command = Some(commands[Data(c).name])
              /\ Unwrap(c.command).name = Data(c).name
        /\ Data(c).name \notin DOMAIN commands =>
              /\ c.command = None
              /\ c.events = <<>>

\* "Ping" with no options matched nothing although "ping" is registered
C8_Witness ==
    \E c \in Executions :
        /\ Data(c).name = "Ping"
        /\ Data(c).options = <<>>
        /\ "ping" \in DOMAIN commands
        /\ c.command = None

\* C9: when the before hook answers false for a resolved command, the call
\* ends there: no handler (and with it no argument parsing), no after hook.
C9_BeforeFalseStops ==
    \A c \in Executions : (IsSome(c.command) /\ IsSome(before)) =>
        /\ c.events # <<>>
        /\ c.events[1].ev = "before"
        /\ c.events[1].name = Unwrap(c.command).name
        /\ c.events[1].result = "false" => Len(c.events) = 1

\* the before hook refused a resolved command while an after hook is
\* configured
C9_Witness ==
    \E c \in Executions :
        /\ IsSome(c.command)
        /\ IsSome(after)
        /\ c.events # <<>>
        /\ c.events[1].ev = "before"
        /\ c.events[1].result = "false"

\* the before hook is absent or answered true
Permitted(c) ==
    \/ ~IsSome(before)
    \/ c.events # <<>> /\ c.events[1].ev = "before"
          /\ c.events[1].result = "true"

\* C10: for a resolved command whose before hook is absent or answers true
\* the events are, in this order, the before hook when configured, the
\* handler once, the after hook once when configured; the after hook gets the
\* command's name and the handler's outcome, success or failure.
C10_HookOrder ==
    \A c \in Executions : (IsSome(c.command) /\ Permitted(c)) =>
        /\ EventNames(c) =
              (IF IsSome(before) THEN <<"before">> ELSE <<>>)
              \o <<"handler">>
              \o (IF IsSome(after) THEN <<"after">> ELSE <<>>)
        /\ \A k \in 1..Len(c.events) :
              c.events[k].name = Unwrap(c.command).name
        /\ IsSome(after) =>
              c.events[Len(c.events)].result =
                 c.events[Len(c.events) - 1].result

\* before answered true, the handler failed and the after hook saw the
\* failure
C10_Witness ==
    \E c \in Executions :
        /\ Len(c.events) = 3
        /\ c.events[1].result = "true"
        /\ c.events[2].ev = "handler" /\ c.events[2].result = "Err"
        /\ c.events[3].ev = "after" /\ c.events[3].result = "Err"

(* ------------------------------------------------ argument parser: claims *)
\* the parse that was applied: its declared type, raw value and result
ParsedAs(types) ==
    IsSome(input) /\ IsSome(output) /\ Unwrap(input).ty \in types

Raw == Unwrap(input).value
Returned == Unwrap(output)

\* the raw value is an Integer
IsInteger == IsSome(Raw) /\ Unwrap(Raw).kind = "Integer"

\* a <= b on magnitudes
MagLeq(a, b) ==
    \/ a = b
    \/ \E j \in 1..4 : a[j] < b[j] /\ \A k \in 1..(j - 1) : a[k] = b[k]

\* the limits of the narrowed types, as magnitudes
Limits ==
    ("i8"  :> [max |-> <<0, 0, 0, 127>>,       min |-> <<0, 0, 0, 128>>]) @@
    ("i16" :> [max |-> <<0, 0, 0, 32767>>,     min |-> <<0, 0, 0, 32768>>]) @@
    ("i32" :> [max |-> <<0, 0, 32767, 65535>>, min |-> <<0, 0, 32768, 0>>]) @@
    ("u8"  :> [max |-> <<0, 0, 0, 255>>,       min |-> <<0, 0, 0, 0>>]) @@
    ("u16" :> [max |-> <<0, 0, 0, 65535>>,     min |-> <<0, 0, 0, 0>>]) @@
    ("u32" :> [max |-> <<0, 0, 65535, 65535>>, min |-> <<0, 0, 0, 0>>])

\* MIN <= v <= MAX of type t
InRange(v, t) ==
    IF v.negative THEN MagLeq(v.magnitude, Limits[t].min)
    ELSE MagLeq(v.magnitude, Limits[t].max)

\* what the narrowed type t must return for the integer v
NarrowedAsClaimed(t, v) ==
    IF InRange(v, t)
    THEN /\ Returned.ok
         /\ Unwrap(Returned.value).kind = t
         /\ Decode(Unwrap(Returned.value).num) = v
    ELSE /\ ~Returned.ok
         /\ Unwrap(Returned.error) =
               ParseError("range",
                          IF v.negative THEN "less" ELSE "greater", t)

\* C13: i8, i16 and i32 parse an Integer v to v exactly when MIN <= v <= MAX;
\* above MAX the error says greater than the type's range, below MIN it says
\* less than.
C13_SignedNarrowing ==
    (ParsedAs({ <<"i8">>, <<"i16">>, <<"i32">> }) /\ IsInteger) =>
        NarrowedAsClaimed(Unwrap(input).ty[1], Decode(Unwrap(Raw).num))

\* 128 parsed as i8 failed as greater than i8's range
C13_Witness ==
    /\ ParsedAs({ <<"i8">> })
    /\ Raw = Some(Integer(Big(FALSE, <<0, 0, 0, 128>>)))
    /\ ~Returned.ok
    /\ Unwrap(Returned.error) = ParseError("range", "greater", "i8")

\* C14 as stated: i128, isize, u128 and usize never fail on an Integer: they
\* return the primitive's value.
C14_WideTypesNeverFail ==
    (ParsedAs({ <<"i128">>, <<"isize">>, <<"u128">>, <<"usize">> })
        /\ IsInteger) =>
        /\ Returned.ok
        /\ Unwrap(Returned.value).num = Unwrap(Raw).num

\* C15 as stated: u8, u16 and u32 parse an Integer v to v exactly when
\* 0 <= v <= MAX; a negative v fails as less than the type's range, v > MAX
\* as greater than.
C15_UnsignedNarrowing ==
    (ParsedAs({ <<"u8">>, <<"u16">>, <<"u32">> }) /\ IsInteger) =>
        NarrowedAsClaimed(Unwrap(input).ty[1], Decode(Unwrap(Raw).num))

\* C16: Option<T> never returns an error: it is present(v) exactly when T
\* parses the same input to v, and absent whenever T fails.
C16_OptionNeverFails ==
    \A t \in Leaves : ParsedAs({ <<"Option", t>> }) =>
        LET inner == parse(<<t>>, Raw)
        IN  /\ Returned.ok
            /\ inner.ok => Unwrap(Returned.value) = Some(Unwrap(inner.value))
            /\ ~inner.ok => Unwrap(Returned.value) = None
            /\ (IsSome(Raw) /\ Unwrap(Raw).kind # Primitives[
                    IF t \in DOMAIN Derived THEN Derived[t].prim
                    ELSE t].variant)
                  => Unwrap(Returned.value) = None
            /\ ~IsSome(Raw) => Unwrap(Returned.value) = None

\* Option<i64> against a String is absent
C16_Witness ==
    /\ ParsedAs({ <<"Option", "i64">> })
    /\ IsSome(Raw) /\ Unwrap(Raw).kind = "String"
    /\ Returned.ok
    /\ Unwrap(Returned.value) = None

\* C17: Result<T, E> always succeeds as an envelope: Ok(Ok(v)) exactly when T
\* parses to v, Ok(Err(e)) with e converted from T's error when T fails.
C17_ResultEnvelope ==
    \A t \in Leaves : ParsedAs({ <<"Result", t>> }) =>
        LET inner == parse(<<t>>, Raw)
            envelope == Unwrap(Returned.value)
        IN  /\ Returned.ok
            /\ envelope.ok = inner.ok
            /\ inner.ok => envelope.value = inner.value
            /\ ~inner.ok =>
                  /\ envelope.value = <<>>
                  /\ Unwrap(envelope.error) = [from |-> Unwrap(inner.error)]

\* Result<i8, E> against 128 is Ok(Err(the range error converted))
C17_Witness ==
    /\ ParsedAs({ <<"Result", "i8">> })
    /\ Raw = Some(Integer(Big(FALSE, <<0, 0, 0, 128>>)))
    /\ Returned.ok
    /\ ~Unwrap(Returned.value).ok
    /\ Unwrap(Unwrap(Returned.value).error) =
          [from |-> ParseError("range", "greater", "i8")]

\* the variant each primitive accepts and the kind its error names
Matching ==
    ("String" :> "String") @@ ("i64" :> "Integer") @@ ("u64" :> "Integer") @@
    ("f64" :> "Number") @@ ("bool" :> "Boolean") @@
    ("ChannelId" :> "Channel") @@ ("UserId" :> "User") @@
    ("RoleId" :> "Role") @@ ("GenericId" :> "Mentionable")

Expected ==
    ("String" :> "String expected") @@ ("Integer" :> "Integer expected") @@
    ("Number" :> "Number expected") @@ ("Boolean" :> "Boolean expected") @@
    ("Channel" :> "Channel expected") @@ ("User" :> "User expected") @@
    ("Role" :> "Role expected") @@ ("Mentionable" :> "Mentionable expected")

\* C18: a primitive leaf type parses only its own variant and returns what
\* the variant carries (u64 the 64-bit word of the Integer, reinterpreted);
\* any other variant, and no value, fail with an error naming the expected
\* kind.
C18_PrimitivesMatchOwnVariant ==
    \A t \in DOMAIN Matching : ParsedAs({ <<t>> }) =>
        IF IsSome(Raw) /\ Unwrap(Raw).kind = Matching[t]
        THEN /\ Returned.ok
             /\ Unwrap(Returned.value).kind = t
             /\ Unwrap(Returned.value).text = Unwrap(Raw).text
             /\ Unwrap(Returned.value).num = Unwrap(Raw).num
             /\ Unwrap(Returned.value).flag = Unwrap(Raw).flag
        ELSE /\ ~Returned.ok
             /\ Unwrap(Returned.error).detail = Expected[Matching[t]]

\* u64 took the Integer -1 as the word of all ones
C18_Witness ==
    /\ ParsedAs({ <<"u64">> })
    /\ Raw = Some(Integer(Big(TRUE, <<0, 0, 0, 1>>)))
    /\ Returned.ok
    /\ Unwrap(Returned.value).num = <<65535, 65535, 65535, 65535>>

(* ------------------------------------------- generated function: claims *)
\* the executions in which the command's function was called
Invocations == { c \in Executions : IsSome(c.fun) }

\* the parses of a call that failed
Failures(t) == { k \in 1..Len(t.parsed) : ~t.parsed[k].result.ok }

\* C11: the declared arguments are parsed in declaration order; parsing stops
\* at the first argument that fails, the handler body does not run after a
\* failure, the failure is the command's result, and the after hook, when
\* configured, receives it as a failed execution.
C11_ParsingFailsFast ==
    \A c \in Invocations :
        LET t == Unwrap(c.fun)
            declared == Signatures[Unwrap(c.command).path]
        IN  /\ Len(t.parsed) <= Len(declared)
            /\ \A k \in 1..Len(t.parsed) :
                  t.parsed[k].name = declared[k].name
            /\ Failures(t) \subseteq { Len(t.parsed) }
            /\ Failures(t) = {} => Len(t.parsed) = Len(declared)
            /\ Failures(t) # {} =>
                  /\ ~t.body
                  /\ t.result = "Err"
                  /\ t.error = t.parsed[Len(t.parsed)].result.error
                  /\ \A k \in HandlerEvents(c) : c.events[k].result = "Err"
                  /\ IsSome(after) =>
                        /\ c.events[Len(c.events)].ev = "after"
                        /\ c.events[Len(c.events)].result = "Err"

\* /g/s declares x, y, z: x parsed, y failed, z was never parsed, the body
\* did not run and the after hook saw the failure
C11_Witness ==
    \E c \in Invocations :
        LET t == Unwrap(c.fun)
        IN  /\ Unwrap(c.command).path = "/g/s"
            /\ Len(t.parsed) = 2
            /\ t.parsed[1].result.ok
            /\ ~t.parsed[2].result.ok
            /\ ~t.body
            /\ c.events[Len(c.events)].ev = "after"
            /\ c.events[Len(c.events)].result = "Err"

\* the entries of the option list that no declared argument takes
RECURSIVE Unconsumed(_, _)
Unconsumed(options, declared) ==
    IF declared = <<>> THEN options
    ELSE Unconsumed(iterator_get(options, declared[1].name).options,
                    Tail(declared))

\* C12 as stated: when every declared argument has been parsed and the option
\* list handed to the command still holds entries, the function fails with
\* the "too many arguments received" StructureMismatch and the body does not
\* run.
C12_LeftoverOptionsRejected ==
    \A c \in Invocations :
        LET t == Unwrap(c.fun)
            declared == Signatures[Unwrap(c.command).path]
        IN  (/\ Failures(t) = {}
             /\ Len(t.parsed) = Len(declared)
             /\ Unconsumed(c.options, declared) # <<>>) =>
                /\ ~t.body
                /\ t.result = "Err"
                /\ t.error = Some(ParseError("structure",
                                     "Too many arguments received", ""))

(* ------------------------------------------------- autocomplete: claims *)
\* the autocomplete requests that were processed and carried data
Completions ==
    { Unwrap(call[p]) : p \in { q \in Procs :
          /\ IsSome(call[q])
          /\ Unwrap(call[q]).arm = "try_autocomplete"
          /\ IsSome(Unwrap(call[q]).interaction.data) } }

Nowhere == [command |-> None, level |-> <<>>]

\* the command a request names by its shape, and the options at that
\* command's own nesting level
Addressed(data) ==
    LET o == data.options
    IN  IF o # <<>> /\ o[1].kind = "SubCommandGroup"
        THEN IF /\ o[1].options # <<>>
                /\ o[1].options[1].kind = "SubCommand"
                /\ data.name \in DOMAIN groups
                /\ groups[data.name].kind.variant = "Group"
                /\ o[1].name \in DOMAIN groups[data.name].kind.map
                /\ o[1].options[1].name \in DOMAIN
                      groups[data.name].kind.map[o[1].name].subcommands
             THEN [command |-> Some(groups[data.name].kind.map[o[1].name]
                                      .subcommands[o[1].options[1].name]),
                   level |-> o[1].options[1].options]
             ELSE Nowhere
        ELSE IF o # <<>> /\ o[1].kind = "SubCommand"
        THEN IF /\ data.name \in DOMAIN groups
                /\ groups[data.name].kind.variant = "Simple"
                /\ o[1].name \in DOMAIN groups[data.name].kind.map
             THEN [command |-> Some(groups[data.name].kind.map[o[1].name]),
                   level |-> o[1].options]
             ELSE Nowhere
        ELSE [command |-> IF data.name \in DOMAIN commands
                          THEN Some(commands[data.name]) ELSE None,
              level |-> o]

\* positions of the Focused options of a level
FocusedAt(level) == { k \in 1..Len(level) : level[k].kind = "Focused" }

First(S) == CHOOSE k \in S : \A j \in S : k <= j

\* the declared arguments of a command that carry a name
Named(command, name) ==
    { k \in 1..Len(command.arguments) : command.arguments[k].name = name }

\* C19: the resolver returns the declared argument named as the first
\* Focused option at the command's own nesting level, with that option's raw
\* text and type tag; it returns nothing without a focused option, without a
\* resolved command or without a declared argument of that name; a response
\* is sent only when the located argument has an autocomplete capability.
C19_AutocompleteResolver ==
    \A c \in Completions :
        LET a == Addressed(Data(c))
            focus == FocusedAt(a.level)
        IN  /\ IF \/ ~IsSome(a.command)
                  \/ focus = {}
                  \/ Named(Unwrap(a.command), a.level[First(focus)].name) = {}
               THEN c.found = None
               ELSE LET focused == a.level[First(focus)]
                        declared == Unwrap(a.command).arguments
                    IN  c.found = Some(
                          [argument |->
                              declared[First(Named(Unwrap(a.command),
                                                   focused.name))],
                           focused |-> [input |-> focused.value,
                                        kind |-> focused.tag]])
            /\ IF IsSome(c.found) /\ Unwrap(c.found).argument.autocomplete
               THEN c.events = << Event("autocomplete",
                                        Unwrap(c.found).argument.name,
                                        Unwrap(c.found).focused.input,
                                        <<>>) >>
               ELSE c.events = <<>>

\* "g" / SubCommand "s" with y focused before x: y is located, with its text
\* and tag, and y having no autocomplete no response is sent
C19_Witness ==
    \E c \in Completions :
        /\ Data(c).name = "g"
        /\ Data(c).options =
              << SubCommand("s", << Focused("y", "h", "Integer"),
                                    Focused("x", "he", "String") >>) >>
        /\ IsSome(c.found)
        /\ Unwrap(c.found).argument = CommandArgument("y", FALSE)
        /\ Unwrap(c.found).focused = [input |-> "h", kind |-> "Integer"]
        /\ c.events = <<>>

(* -------------------------------------------------- frame of process: claims *)
\* the step pushes one waiter at the end of the list: a registration, which
\* is not a step of process
Registers ==
    /\ Len(waiters') = Len(waiters) + 1
    /\ SubSeq(waiters', 1, Len(waiters)) = waiters

\* the step is the removal made by a call of process that was routed to the
\* waiter registry
RoutedRemoval ==
    \E p \in Procs :
        /\ IsSome(cur[p])
        /\ Unwrap(cur[p]).kind = "MessageComponent"
        /\ pc[p] = "remove"
        /\ pc'[p] = "unlock"
        /\ \E k \in 1..Len(waiters) : waiters' = Without(waiters, k)

\* C20: no step of a call of process changes the command map, the group map
\* or the hooks; a step of process changes the waiter list only as the
\* removal made for an interaction routed to the waiter registry.
C20_ProcessFrame ==
    [][/\ commands' = commands
       /\ groups' = groups
       /\ before' = before
       /\ after' = after
       /\ waiters' # waiters => (Registers \/ RoutedRemoval)]_vars

\* a command was executed while a waiter was registered, after another
\* waiter had been woken, and the registry is as built
C20_Witness ==
    /\ IsSome(call[1])
    /\ Unwrap(call[1]).arm = "try_execute"
    /\ HandlerEvents(Unwrap(call[1])) # {}
    /\ waiters # <<>>
    /\ \E id \in DOMAIN delivered : delivered[id] # <<>>
    /\ commands = BuilderCommands
    /\ groups = BuilderGroups
    /\ IsSome(before)
    /\ IsSome(after)

(* ------------------------------------------ resolver and router: claims *)
\* what get_command resolves for a command invocation carrying the data of
\* an autocomplete request
Routed(c) ==
    get_command(commands, groups,
                Interaction("ApplicationCommand", c.interaction.data))

\* C21: whenever the autocomplete resolver locates an argument, the argument
\* belongs to the command get_command resolves for an invocation of the same
\* name and option list, and the option list of the request is left as it
\* was received.
C21_ResolverAgreesWithRouter ==
    \A c \in Completions :
        /\ c.options = Data(c).options
        /\ IsSome(c.found) =>
              /\ ~Routed(c).panicked
              /\ IsSome(Routed(c).command)
              /\ c.owner = Some(Unwrap(Routed(c).command).path)
              /\ \E k \in 1..Len(Unwrap(Routed(c).command).arguments) :
                    Unwrap(Routed(c).command).arguments[k] =
                       Unwrap(c.found).argument

\* an argument located two levels down, in the command the router resolves
\* after reshaping the option list
C21_Witness ==
    \E c \in Completions :
        /\ IsSome(c.found)
        /\ c.owner = Some("/h/sg/s")
        /\ Unwrap(Routed(c).command).path = "/h/sg/s"
        /\ Routed(c).options # Data(c).options
        /\ c.options = Data(c).options

(* ------------------------------------------------ checks of a command: claims *)
\* the command has a check that would answer false
Denied(command) ==
    \E k \in 1..Len(command.checks) : ~CheckAnswers[command.checks[k]]

\* C22: the handler of a resolved command is called exactly when the before
\* hook is absent or answers true, whatever the command's checks would
\* answer and whatever permissions it requires.
C22_OnlyBeforeHookGates ==
    \A c \in Executions : IsSome(c.command) =>
        /\ HandlerEvents(c) # {} <=> Permitted(c)
        /\ IsSome(c.fun) <=> Permitted(c)
        /\ \A k \in 1..Len(c.events) :
              c.events[k].ev \in {"before", "handler", "after"}

\* "ping", whose one check would answer false, was executed: the before hook
\* answered true and the body of the handler ran
C22_Witness ==
    \E c \in Executions :
        /\ IsSome(c.command)
        /\ Unwrap(c.command).path = "/ping"
        /\ Denied(Unwrap(c.command))
        /\ IsSome(before)
        /\ HandlerEvents(c) # {}
        /\ Unwrap(c.fun).body

====
